---- MODULE Spec2Model ----
(***************************************************************************)
(* Model of varView (src/src/main.rs): a terminal viewer for SAM files.    *)
(* The interaction thread owns the App fields; scans and loads run in      *)
(* worker threads that post one LoaderMsg on an mpsc channel, which the    *)
(* main loop drains with App::recv on a tick.                              *)
(*                                                                         *)
(* Strings and paths are sequences of one-character strings, so that       *)
(* splitting, trimming, substring search, lower-casing and ordering are    *)
(* computed the way the code computes them.  Indices are 0-based as in     *)
(* the code; element i of a Vec v is v[i + 1].                             *)
(***************************************************************************)
EXTENDS Integers, Sequences, FiniteSets, TLC

(***************************************************************************)
(* Bounds of the model.                                                    *)
(***************************************************************************)
\* most results outstanding at once (workers in flight + queued messages)
MaxPending == 1
\* longest search-input buffer that is typed
MaxInput == 1
\* largest horizontal scroll offset that is reached
MaxScroll == 5
\* most results outstanding at once in the specification of the races
MaxRace == 2
\* longest query that is typed in the specification of the search
MaxQuery == 2

(***************************************************************************)
(* Program constants.                                                      *)
(***************************************************************************)
\* main.rs:147  fields.len() >= 11
MinFields == 11
\* main.rs:300, 303  saturating_sub(5) / saturating_add(5)
ScrollStep == 5
\* main.rs:42  table_scroll: (u16, u16)
U16Max == 65535

(***************************************************************************)
(* Characters.  Alphabet lists the characters of the model in code-point   *)
(* order; Ord is the position in it, Lower is char::to_lowercase.          *)
(***************************************************************************)
TAB == "\t"

Alphabet ==
  << TAB, " ", "*", ".", "/", "1", "2", "3", "@", "B", "R", "Z",
     "a", "b", "c", "d", "e", "l", "m", "n", "o", "r", "s", "t", "u", "w", "x", "z" >>

Ord(c) == CHOOSE i \in 1..Len(Alphabet) : Alphabet[i] = c

Lower(c) ==
  CASE c = "B" -> "b"
    [] c = "R" -> "r"
    [] c = "Z" -> "z"
    [] OTHER   -> c

IsWhite(c) == c \in {" ", TAB}

ToLowercase(s) == [i \in 1..Len(s) |-> Lower(s[i])]

\* Ord for str / Option<String>: lexicographic on code points, a proper
\* prefix is smaller.
RECURSIVE StrLess(_, _)
StrLess(a, b) ==
  IF b = <<>> THEN FALSE
  ELSE IF a = <<>> THEN TRUE
  ELSE IF Ord(a[1]) # Ord(b[1]) THEN Ord(a[1]) < Ord(b[1])
  ELSE StrLess(Tail(a), Tail(b))

\* str::contains(needle): needle occurs as a contiguous substring
Contains(hay, needle) ==
  \E k \in 0..(Len(hay) - Len(needle)) :
     \A j \in 1..Len(needle) : hay[k + j] = needle[j]

\* str::starts_with(char)
StartsWith(s, c) == Len(s) > 0 /\ s[1] = c

\* str::trim(): strip leading and trailing white space
RECURSIVE TrimStart(_)
TrimStart(s) ==
  IF s # <<>> /\ IsWhite(s[1]) THEN TrimStart(Tail(s)) ELSE s

RECURSIVE TrimEnd(_)
TrimEnd(s) ==
  IF s # <<>> /\ IsWhite(s[Len(s)]) THEN TrimEnd(SubSeq(s, 1, Len(s) - 1)) ELSE s

Trim(s) == TrimEnd(TrimStart(s))

\* str::split('\t'): the fields between the tabs, empty fields included;
\* a string with n tabs gives n + 1 fields.
RECURSIVE SplitAcc(_, _, _)
SplitAcc(s, cur, acc) ==
  IF s = <<>> THEN Append(acc, cur)
  ELSE IF s[1] = TAB THEN SplitAcc(Tail(s), <<>>, Append(acc, cur))
  ELSE SplitAcc(Tail(s), Append(cur, s[1]), acc)

Split(s) == SplitAcc(s, <<>>, <<>>)

(***************************************************************************)
(* The file system the workers read.  Paths are absolute, as picker_path   *)
(* starts from std::env::current_dir().                                    *)
(*     /                 directory                                         *)
(*     /w                directory, the start directory                    *)
(*     /w/a.sam          two '@' lines, four records, one short line       *)
(*     /w/b.bam          header line, a record, a short line, a line whose *)
(*                       read fails, a record                              *)
(*     /w/notes.txt      a file of another kind                            *)
(*     /w/sub            directory                                         *)
(*     /w/sub/c.sam      a file that cannot be opened                      *)
(*     /w/sub/Z.sam      a file that cannot be opened                      *)
(***************************************************************************)
PRoot  == << "/" >>
PW     == << "/", "w" >>
PASam  == PW \o << "/", "a", ".", "s", "a", "m" >>
PBBam  == PW \o << "/", "b", ".", "b", "a", "m" >>
PNotes == PW \o << "/", "n", "o", "t", "e", "s", ".", "t", "x", "t" >>
PSub   == PW \o << "/", "s", "u", "b" >>
PCSam  == PSub \o << "/", "c", ".", "s", "a", "m" >>
PZSam  == PSub \o << "/", "Z", ".", "s", "a", "m" >>

Dirs  == { PRoot, PW, PSub }
RegularFiles == { PASam, PBBam, PNotes, PCSam, PZSam }
Unopenable == { PCSam, PZSam }

\* std::env::current_dir()
CurrentDir == PW

\* Path::is_dir / Path::is_file
IsDir(p)  == p \in Dirs
IsFile(p) == p \in RegularFiles

\* The orders in which the directory iterator may hand out the children of
\* a directory (the order of readdir is not specified).
ReadDir(d) ==
  CASE d = PRoot -> { << PW >> }
    [] d = PW    -> { << PNotes, PBBam, PASam, PSub >>, << PASam, PSub, PNotes, PBBam >> }
    [] d = PSub  -> { << PZSam, PCSam >>, << PCSam, PZSam >> }
    [] OTHER     -> { << >> }

\* A text line of tab-separated fields: field 0 is q, the others are "*".
RECURSIVE Stars(_)
Stars(n) == IF n = 0 THEN << >> ELSE << TAB, "*" >> \o Stars(n - 1)

Record(q, nfields) == q \o Stars(nfields - 1)

Ok(text) == [ok |-> TRUE, text |-> text]
\* a line whose read returns Err (bytes that are not UTF-8)
ReadErr == [ok |-> FALSE, text |-> << >>]

\* What BufReader::lines() yields for each file that can be opened.
FileLines(p) ==
  CASE p = PASam ->
         << Ok(<< "@", "c", "o" >>),
            Ok(Record(<< "@", "r", "1" >>, 11)),
            Ok(Record(<< "r", "1" >>, 11)),
            Ok(Record(<< "r", "2" >>, 12)),
            Ok(Record(<< "b", "a", "d" >>, 10)),
            Ok(Record(<< "r", "1", "x" >>, 11)),
            Ok(Record(<< "r", "3" >>, 11)) >>
    [] p = PBBam ->
         << Ok(<< "@", "c", "o" >>),
            Ok(Record(<< "r", "1" >>, 11)),
            Ok(Record(<< "b", "a", "d" >>, 2)),
            ReadErr,
            Ok(Record(<< "r", "2" >>, 11)) >>
    [] p = PNotes -> << Ok(<< "n", "o", "t", "e" >>) >>
    [] OTHER -> << >>

(***************************************************************************)
(* std::path::Path                                                         *)
(***************************************************************************)
\* position of the last occurrence of c in s, 0 when there is none
LastIndexOf(s, c) ==
  IF \E i \in 1..Len(s) : s[i] = c
  THEN CHOOSE i \in 1..Len(s) : s[i] = c /\ \A j \in (i + 1)..Len(s) : s[j] # c
  ELSE 0

\* Path::parent(): None for the root, else the path without its last component
HasParent(p) == p # PRoot
Parent(p) ==
  LET k == LastIndexOf(p, "/") IN IF k <= 1 THEN PRoot ELSE SubSeq(p, 1, k - 1)

\* Path::file_name()
FileName(p) == SubSeq(p, LastIndexOf(p, "/") + 1, Len(p))

\* Path::extension(): the part of the file name after its last dot; None
\* when there is no dot or the only dot is the first character.
HasExtension(p) == LastIndexOf(FileName(p), ".") > 1
Extension(p) ==
  LET n == FileName(p) IN SubSeq(n, LastIndexOf(n, ".") + 1, Len(n))

(***************************************************************************)
(* Directory scanner: the closure spawned by App::refresh_picker.          *)
(***************************************************************************)
\* main.rs:119-123  the retained-kind predicate
Retained(p) ==
  \/ IsDir(p)
  \/ HasExtension(p) /\ Extension(p) \in { << "s", "a", "m" >>, << "b", "a", "m" >> }

\* main.rs:113-117  WalkDir::new(&path).max_depth(1): the walk yields the
\* root itself at depth 0 (min_depth is left at 0) and then its children;
\* entries that fail are dropped by filter_map(|e| e.ok()).
WalkDir(path, order) == << path >> \o order

\* KeyLess without the lower-casing of the path
KeyLessCaseSensitive(a, b) ==
  \/ ~IsFile(a) /\ IsFile(b)
  \/ IsFile(a) = IsFile(b) /\ StrLess(a, b)

\* main.rs:127  the sort key (p.is_file(), lower-cased path)
KeyLess(a, b) ==
  \/ ~IsFile(a) /\ IsFile(b)
  \/ IsFile(a) = IsFile(b) /\ StrLess(ToLowercase(a), ToLowercase(b))

\* main.rs:127  sort_by_key is a stable sort: an element goes after every
\* element whose key is not greater.
RECURSIVE InsertSorted(_, _)
InsertSorted(sorted, p) ==
  IF sorted = << >> THEN << p >>
  ELSE IF KeyLess(p, sorted[1]) THEN << p >> \o sorted
  ELSE << sorted[1] >> \o InsertSorted(Tail(sorted), p)

RECURSIVE SortByKey(_, _)
SortByKey(todo, sorted) ==
  IF todo = << >> THEN sorted
  ELSE SortByKey(Tail(todo), InsertSorted(sorted, todo[1]))

\* main.rs:107-127  the entries a scan of path builds
ScanEntries(path, order) ==
  LET parent == IF HasParent(path) THEN << Parent(path) >> ELSE << >>
      kept   == SelectSeq(WalkDir(path, order), Retained)
  IN  SortByKey(parent \o kept, << >>)

(***************************************************************************)
(* Table loader: the closure spawned by App::load_sam.                     *)
(***************************************************************************)
\* LoadLoop without the test for '@'
RECURSIVE LoadLoopKeepsHeader(_, _)
LoadLoopKeepsHeader(lines, rows) ==
  IF lines = << >> THEN rows
  ELSE LET l == lines[1] IN
       IF ~l.ok THEN LoadLoopKeepsHeader(Tail(lines), rows)
       ELSE LET fields == Split(l.text) IN
            IF Len(fields) >= MinFields
            THEN LoadLoopKeepsHeader(Tail(lines), Append(rows, fields))
            ELSE LoadLoopKeepsHeader(Tail(lines), rows)

\* main.rs:142-150  reader.lines().flatten() skips the lines whose read
\* failed and goes on with the next one
RECURSIVE LoadLoop(_, _)
LoadLoop(lines, rows) ==
  IF lines = << >> THEN rows
  ELSE LET l == lines[1] IN
       IF ~l.ok THEN LoadLoop(Tail(lines), rows)
       ELSE IF StartsWith(l.text, "@") THEN LoadLoop(Tail(lines), rows)
       ELSE LET fields == Split(l.text) IN
            IF Len(fields) >= MinFields
            THEN LoadLoop(Tail(lines), Append(rows, fields))
            ELSE LoadLoop(Tail(lines), rows)

\* main.rs:135-138  File::open
CanOpen(p) == p \in RegularFiles \ Unopenable

LoadRows(p) == LoadLoop(FileLines(p), << >>)

(***************************************************************************)
(* State: the fields of struct App (main.rs:35-49), the worker threads     *)
(* that have been spawned and have not ended, and the loader channel.      *)
(* picker_state and table_state hold the selected index (always Some).     *)
(* quit: the main loop has ended; panicked: the main thread has panicked.  *)
(* The main loop: event is the input event waiting at event::poll ("none"  *)
(* when there is none), pc is the place of the loop ("poll": at            *)
(* event::poll, "ticktest": at the test of the tick timer), tick_due is    *)
(* last_tick.elapsed() >= tick_rate.                                       *)
(***************************************************************************)
VARIABLES picker_open, picker_path, picker_entries, picker_state,
          table_rows, table_state, table_scroll,
          search_open, search_input, search_results,
          workers, loader_chan, quit, panicked,
          event, pc, tick_due

vars == << picker_open, picker_path, picker_entries, picker_state,
           table_rows, table_state, table_scroll,
           search_open, search_input, search_results,
           workers, loader_chan, quit, panicked,
           event, pc, tick_due >>

\* everything but the main loop's place, pending event and timer
progVars == << picker_open, picker_path, picker_entries, picker_state,
               table_rows, table_state, table_scroll,
               search_open, search_input, search_results,
               workers, loader_chan, quit, panicked >>

loopVars == << event, pc, tick_due >>

appVars == << picker_open, picker_path, picker_entries, picker_state,
              table_rows, table_state, table_scroll,
              search_open, search_input, search_results >>

\* The characters the model types into the search input.
TypeChars == { "r" }
\* The characters typed in the specification of the search.
QueryChars == { "r", "1", "2", "R", " " }

\* A worker thread: the closure of refresh_picker ("scan") or of load_sam
\* ("load") with the path it captured.
Worker(kind, path) == [kind |-> kind, path |-> path]

\* A LoaderMsg.  path is history: the path the worker was given.
Msg(kind, payload, w) == [kind |-> kind, payload |-> payload, path |-> w.path]

Pending == Len(workers) + Len(loader_chan)

Running == ~quit /\ ~panicked

\* main.rs:214-217  the loop starts at its first poll with the timer just set
LoopInit == event = "none" /\ pc = "poll" /\ tick_due = FALSE

\* main.rs:58-69, 211-212  App::new() and the first refresh_picker()
Init ==
  /\ LoopInit
  /\ picker_open = FALSE
  /\ picker_path = CurrentDir
  /\ picker_entries = << >>
  /\ picker_state = 0
  /\ table_rows = << >>
  /\ table_state = 0
  /\ table_scroll = << 0, 0 >>
  /\ search_open = FALSE
  /\ search_input = << >>
  /\ search_results = << >>
  /\ workers = << Worker("scan", CurrentDir) >>
  /\ loader_chan = << >>
  /\ quit = FALSE
  /\ panicked = FALSE

(***************************************************************************)
(* Worker threads.                                                         *)
(***************************************************************************)
\* Spawn that replaces the workers still running by the new one
SpawnCancelling(kind, path) == workers' = << Worker(kind, path) >>

\* main.rs:106, 134  thread::spawn: one more worker, in request order
Spawn(kind, path) == workers' = Append(workers, Worker(kind, path))

\* worker i ends: it leaves the list, the others go on
Ended(i) ==
  [j \in 1..(Len(workers) - 1) |-> IF j < i THEN workers[j] ELSE workers[j + 1]]

\* main.rs:106-129  the scan closure runs to its end and posts Files
ScanDone(i) ==
  /\ workers[i].kind = "scan"
  /\ \E order \in ReadDir(workers[i].path) :
       loader_chan' = Append(loader_chan,
                             Msg("Files", ScanEntries(workers[i].path, order), workers[i]))
  /\ workers' = Ended(i)
  /\ UNCHANGED << appVars, quit, panicked >>

\* main.rs:134-152  the load closure opens the file, reads it and posts SamRows
LoadDone(i) ==
  /\ workers[i].kind = "load"
  /\ CanOpen(workers[i].path)
  /\ loader_chan' = Append(loader_chan,
                           Msg("SamRows", LoadRows(workers[i].path), workers[i]))
  /\ workers' = Ended(i)
  /\ UNCHANGED << appVars, quit, panicked >>

\* main.rs:135-138  File::open fails: the closure returns, nothing is posted
LoadFail(i) ==
  /\ workers[i].kind = "load"
  /\ ~CanOpen(workers[i].path)
  /\ workers' = Ended(i)
  /\ UNCHANGED << appVars, loader_chan, quit, panicked >>

(***************************************************************************)
(* App::recv                                                               *)
(***************************************************************************)
\* the fields recv assigns
RecvView ==
  [picker_entries |-> picker_entries, picker_state |-> picker_state,
   table_rows |-> table_rows, table_state |-> table_state,
   table_scroll |-> table_scroll, search_results |-> search_results]

\* ApplyMsg with the Files arm keeping the selection when it is still in
\* range of the new list
ApplyMsgKeepsSelection(st, m) ==
  CASE m.kind = "Files" ->
         [st EXCEPT !.picker_entries = m.payload,
                    !.picker_state = IF st.picker_state < Len(m.payload)
                                     THEN st.picker_state ELSE 0]
    [] m.kind = "SamRows" ->
         [st EXCEPT !.table_rows = m.payload, !.table_state = 0,
                    !.table_scroll = << 0, 0 >>, !.search_results = << >>]
    [] OTHER -> st

\* ApplyMsg with the table arm leaving the old search results in place
ApplyMsgKeepsSearch(st, m) ==
  CASE m.kind = "Files" ->
         [st EXCEPT !.picker_entries = m.payload, !.picker_state = 0]
    [] m.kind = "SamRows" ->
         [st EXCEPT !.table_rows = m.payload, !.table_state = 0,
                    !.table_scroll = << 0, 0 >>]
    [] OTHER -> st

\* main.rs:86-98  the match on one message
ApplyMsg(st, m) ==
  CASE m.kind = "Files" ->
         [st EXCEPT !.picker_entries = m.payload, !.picker_state = 0]
    [] m.kind = "SamRows" ->
         [st EXCEPT !.table_rows = m.payload, !.table_state = 0,
                    !.table_scroll = << 0, 0 >>, !.search_results = << >>]
    [] OTHER -> st

\* Recv with an if in place of the while: the oldest message only
RecvOne(st, queue) ==
  IF queue = << >> THEN [app |-> st, rest |-> queue]
  ELSE [app |-> ApplyMsg(st, Head(queue)), rest |-> Tail(queue)]

\* main.rs:85  while let Ok(msg) = rx.try_recv(): one message after the
\* other, oldest first, until try_recv finds the channel empty.  The result
\* is the state reached and what is left in the channel.
RECURSIVE Recv(_, _)
Recv(st, queue) ==
  IF queue = << >> THEN [app |-> st, rest |-> queue]
  ELSE Recv(ApplyMsg(st, Head(queue)), Tail(queue))

\* main.rs:311-314  the tick: recv() once the tick interval has elapsed
Tick ==
  /\ Running
  /\ LET r == Recv(RecvView, loader_chan) IN
       /\ picker_entries' = r.app.picker_entries
       /\ picker_state' = r.app.picker_state
       /\ table_rows' = r.app.table_rows
       /\ table_state' = r.app.table_state
       /\ table_scroll' = r.app.table_scroll
       /\ search_results' = r.app.search_results
       /\ loader_chan' = r.rest
  /\ UNCHANGED << picker_open, picker_path, search_open, search_input,
                  workers, quit, panicked >>

(***************************************************************************)
(* App::perform_search                                                     *)
(***************************************************************************)
\* main.rs:162-173  enumerate().filter_map(..).collect(): the indices of the
\* rows whose field 0 contains the needle, in the order of the iteration
RECURSIVE SearchLoop(_, _, _, _)
SearchLoop(rows, needle, i, acc) ==
  IF i >= Len(rows) THEN acc
  ELSE LET fields == rows[i + 1] IN
       IF Len(fields) > 0 /\ Contains(fields[1], needle)
       THEN SearchLoop(rows, needle, i + 1, Append(acc, i))
       ELSE SearchLoop(rows, needle, i + 1, acc)

\* main.rs:156  the needle is the trimmed input
Needle(input) == Trim(input)

\* SearchResults that tests the trimmed input for emptiness and then
\* searches for the input as typed
SearchResultsUntrimmed(rows, input) ==
  IF Needle(input) = << >> THEN << >> ELSE SearchLoop(rows, input, 0, << >>)

\* main.rs:156-173  the new search_results
SearchResults(rows, input) ==
  IF Needle(input) = << >> THEN << >> ELSE SearchLoop(rows, Needle(input), 0, << >>)

\* SearchSelect that selects row 0 when nothing matched
SearchSelectReset(results, selected) ==
  IF results # << >> THEN results[1] ELSE 0

\* main.rs:175-177  the selection after the search
SearchSelect(results, selected) ==
  IF results # << >> THEN results[1] ELSE selected

(***************************************************************************)
(* The key handlers of the main loop (main.rs:227-308).  A key is handled  *)
(* by the first arm of the match that accepts it: 'q', then '/' while no   *)
(* modal is open, then Tab, then the picker arm, then the arm for a closed *)
(* picker with the search modal ahead of table navigation.                 *)
(***************************************************************************)
Min(a, b) == IF a < b THEN a ELSE b

\* usize/u16 saturating_sub
SatSub(a, b) == IF a >= b THEN a - b ELSE 0

\* u16 saturating_add
SatAddU16(a, b) == Min(a + b, U16Max)

\* main.rs:228  'q' ends the loop in every mode
KeyQ ==
  /\ Running
  /\ quit' = TRUE
  /\ UNCHANGED << appVars, workers, loader_chan, panicked >>

\* main.rs:282-284  Char(c) in the search modal: push
PushChar(c) ==
  /\ search_input' = Append(search_input, c)
  /\ UNCHANGED << picker_open, picker_path, picker_entries, picker_state,
                  table_rows, table_state, table_scroll, search_open,
                  search_results, workers, loader_chan, quit, panicked >>

\* main.rs:231-234  '/' opens the search modal when no modal is open;
\* otherwise it is an ordinary character for the later arms
KeySlash ==
  /\ Running
  /\ IF ~picker_open /\ ~search_open
     THEN /\ search_open' = TRUE
          /\ search_input' = << >>
          /\ UNCHANGED << picker_open, picker_path, picker_entries, picker_state,
                          table_rows, table_state, table_scroll, search_results,
                          workers, loader_chan, quit, panicked >>
     ELSE IF ~picker_open THEN PushChar("/")
     ELSE UNCHANGED progVars

\* KeyTab that rescans on every press, also when the picker closes
KeyTabAlwaysScans ==
  /\ Running
  /\ picker_open' = ~picker_open
  /\ Spawn("scan", picker_path)
  /\ UNCHANGED << picker_path, picker_entries, picker_state,
                  table_rows, table_state, table_scroll,
                  search_open, search_input, search_results,
                  loader_chan, quit, panicked >>

\* main.rs:236-241  Tab toggles the picker in every mode and rescans when
\* the picker opens
KeyTab ==
  /\ Running
  /\ picker_open' = ~picker_open
  /\ IF ~picker_open
     THEN Spawn("scan", picker_path)
     ELSE UNCHANGED workers
  /\ UNCHANGED << picker_path, picker_entries, picker_state,
                  table_rows, table_state, table_scroll,
                  search_open, search_input, search_results,
                  loader_chan, quit, panicked >>

\* main.rs:244, 274  Esc closes the picker, else the search modal
KeyEsc ==
  /\ Running
  /\ IF picker_open
     THEN picker_open' = FALSE /\ UNCHANGED search_open
     ELSE search_open' = FALSE /\ UNCHANGED picker_open
  /\ UNCHANGED << picker_path, picker_entries, picker_state,
                  table_rows, table_state, table_scroll,
                  search_input, search_results,
                  workers, loader_chan, quit, panicked >>

\* main.rs:245-249  Up in the picker
PickerUp(i) == SatSub(i, 1)

\* main.rs:250-255  Down in the picker
PickerDown(i, len) == IF i + 1 >= len THEN 0 ELSE i + 1

\* main.rs:288-291  Up in the table
TableUp(i) == SatSub(i, 1)

\* TableDown without the test against the last row
TableDownPastEnd(i, len) == i + 1

\* TableDown that goes round to row 0 from the last row, as the picker does
TableDownWraps(i, len) == IF i + 1 >= len THEN 0 ELSE i + 1

\* main.rs:292-297  Down in the table
TableDown(i, len) ==
  LET max == SatSub(len, 1) IN IF i >= max THEN max ELSE i + 1

\* main.rs:245-249, 288-291  Up; the search modal ignores it
KeyUp ==
  /\ Running
  /\ IF picker_open
     THEN picker_state' = PickerUp(picker_state) /\ UNCHANGED table_state
     ELSE IF search_open
     THEN UNCHANGED << picker_state, table_state >>
     ELSE table_state' = TableUp(table_state) /\ UNCHANGED picker_state
  /\ UNCHANGED << picker_open, picker_path, picker_entries,
                  table_rows, table_scroll,
                  search_open, search_input, search_results,
                  workers, loader_chan, quit, panicked >>

\* main.rs:250-255, 292-297  Down; the search modal ignores it
KeyDown ==
  /\ Running
  /\ IF picker_open
     THEN picker_state' = PickerDown(picker_state, Len(picker_entries))
          /\ UNCHANGED table_state
     ELSE IF search_open
     THEN UNCHANGED << picker_state, table_state >>
     ELSE table_state' = TableDown(table_state, Len(table_rows))
          /\ UNCHANGED picker_state
  /\ UNCHANGED << picker_open, picker_path, picker_entries,
                  table_rows, table_scroll,
                  search_open, search_input, search_results,
                  workers, loader_chan, quit, panicked >>

\* main.rs:298-301  Left while browsing
ScrollLeft(h) == SatSub(h, ScrollStep)

\* main.rs:302-304  Right while browsing
ScrollRight(h) == SatAddU16(h, ScrollStep)

KeyLeft ==
  /\ Running
  /\ IF ~picker_open /\ ~search_open
     THEN table_scroll' = << ScrollLeft(table_scroll[1]), table_scroll[2] >>
     ELSE UNCHANGED table_scroll
  /\ UNCHANGED << picker_open, picker_path, picker_entries, picker_state,
                  table_rows, table_state,
                  search_open, search_input, search_results,
                  workers, loader_chan, quit, panicked >>

KeyRight ==
  /\ Running
  /\ IF ~picker_open /\ ~search_open
     THEN table_scroll' = << ScrollRight(table_scroll[1]), table_scroll[2] >>
     ELSE UNCHANGED table_scroll
  /\ UNCHANGED << picker_open, picker_path, picker_entries, picker_state,
                  table_rows, table_state,
                  search_open, search_input, search_results,
                  workers, loader_chan, quit, panicked >>

\* PickerEnter that loads the selected file and leaves the picker open
PickerEnterStaysOpen ==
  IF picker_state >= Len(picker_entries)
  THEN /\ panicked' = TRUE
       /\ UNCHANGED << appVars, workers, loader_chan, quit >>
  ELSE LET selected == picker_entries[picker_state + 1] IN
       /\ IF IsDir(selected)
          THEN /\ picker_path' = selected
               /\ Spawn("scan", selected)
          ELSE /\ Spawn("load", selected)
               /\ UNCHANGED picker_path
       /\ UNCHANGED << picker_open, picker_entries, picker_state,
                       table_rows, table_state, table_scroll,
                       search_open, search_input, search_results,
                       loader_chan, quit, panicked >>

\* main.rs:256-267  Enter in the picker: picker_entries[idx] panics when
\* idx is out of range; a directory is entered and scanned, anything else
\* is loaded and the picker closes
PickerEnter ==
  IF picker_state >= Len(picker_entries)
  THEN /\ panicked' = TRUE
       /\ UNCHANGED << appVars, workers, loader_chan, quit >>
  ELSE LET selected == picker_entries[picker_state + 1] IN
       /\ IF IsDir(selected)
          THEN /\ picker_path' = selected
               /\ Spawn("scan", selected)
               /\ UNCHANGED picker_open
          ELSE /\ picker_open' = FALSE
               /\ Spawn("load", selected)
               /\ UNCHANGED picker_path
       /\ UNCHANGED << picker_entries, picker_state,
                       table_rows, table_state, table_scroll,
                       search_open, search_input, search_results,
                       loader_chan, quit, panicked >>

\* main.rs:275-278  Enter in the search modal: perform_search, then close
SearchEnter ==
  /\ search_results' = SearchResults(table_rows, search_input)
  /\ table_state' = SearchSelect(search_results', table_state)
  /\ search_open' = FALSE
  /\ UNCHANGED << picker_open, picker_path, picker_entries, picker_state,
                  table_rows, table_scroll, search_input,
                  workers, loader_chan, quit, panicked >>

KeyEnter ==
  /\ Running
  /\ IF picker_open THEN PickerEnter
     ELSE IF search_open THEN SearchEnter
     ELSE UNCHANGED progVars

\* main.rs:279-281  Backspace in the search modal: pop
KeyBackspace ==
  /\ Running
  /\ IF ~picker_open /\ search_open
     THEN search_input' = SubSeq(search_input, 1, Len(search_input) - 1)
     ELSE UNCHANGED search_input
  /\ UNCHANGED << picker_open, picker_path, picker_entries, picker_state,
                  table_rows, table_state, table_scroll, search_open,
                  search_results, workers, loader_chan, quit, panicked >>

\* main.rs:282-284  any other character: pushed in the search modal,
\* ignored elsewhere
KeyChar(c) ==
  /\ Running
  /\ IF ~picker_open /\ search_open THEN PushChar(c) ELSE UNCHANGED progVars

(***************************************************************************)
(* The bounds of the model are kept out of the handlers: a step that       *)
(* spawns a worker is taken only while fewer than MaxPending results are   *)
(* outstanding, a character is typed only up to MaxInput characters, and   *)
(* the table is scrolled right only up to MaxScroll.                       *)
(*                                                                         *)
(* In Spec, SpecRace and SpecSearch a step of a key is the whole iteration *)
(* of the loop that reads the key press, and Tick is the iteration in      *)
(* which the poll times out and the timer has elapsed; the loop is at its  *)
(* poll between the steps, so event, pc and tick_due stay as they start.   *)
(* SpecLive below takes the iteration apart.                               *)
(***************************************************************************)
SpawnBound == Len(workers') > Len(workers) => Pending < MaxPending
InputBound == Len(search_input') <= MaxInput
ScrollBound == table_scroll'[1] <= MaxScroll

Next ==
  \/ KeyQ /\ UNCHANGED loopVars
  \/ KeySlash /\ InputBound /\ UNCHANGED loopVars
  \/ KeyTab /\ SpawnBound /\ UNCHANGED loopVars
  \/ KeyEsc /\ UNCHANGED loopVars
  \/ KeyUp /\ UNCHANGED loopVars
  \/ KeyDown /\ UNCHANGED loopVars
  \/ KeyLeft /\ UNCHANGED loopVars
  \/ KeyRight /\ ScrollBound /\ UNCHANGED loopVars
  \/ KeyEnter /\ SpawnBound /\ UNCHANGED loopVars
  \/ KeyBackspace /\ UNCHANGED loopVars
  \/ \E c \in TypeChars : KeyChar(c) /\ InputBound /\ UNCHANGED loopVars
  \/ Tick /\ UNCHANGED loopVars
  \/ \E i \in 1..Len(workers) : ScanDone(i) /\ UNCHANGED loopVars
  \/ \E i \in 1..Len(workers) : LoadDone(i) /\ UNCHANGED loopVars
  \/ \E i \in 1..Len(workers) : LoadFail(i) /\ UNCHANGED loopVars

Spec == Init /\ [][Next]_vars

(***************************************************************************)
(* The workers and their races: the same program with the keys of the     *)
(* picker only (Tab, Esc, Up, Down, Enter), and up to MaxRace results      *)
(* outstanding.  Every scan and every load of the file system is reached.  *)
(***************************************************************************)
RaceBound == Len(workers') > Len(workers) => Pending < MaxRace

RaceNext ==
  \/ KeyTab /\ RaceBound /\ UNCHANGED loopVars
  \/ KeyEsc /\ UNCHANGED loopVars
  \/ KeyUp /\ UNCHANGED loopVars
  \/ KeyDown /\ UNCHANGED loopVars
  \/ KeyEnter /\ RaceBound /\ UNCHANGED loopVars
  \/ Tick /\ UNCHANGED loopVars
  \/ \E i \in 1..Len(workers) : ScanDone(i) /\ UNCHANGED loopVars
  \/ \E i \in 1..Len(workers) : LoadDone(i) /\ UNCHANGED loopVars
  \/ \E i \in 1..Len(workers) : LoadFail(i) /\ UNCHANGED loopVars

SpecRace == Init /\ [][RaceNext]_vars

(***************************************************************************)
(* The search: the program once the first scan has been drained and a      *)
(* table may have been loaded, with the keys of the search modal and of    *)
(* table navigation, and queries of up to MaxQuery characters.             *)
(***************************************************************************)
LoadedTables == { << >>, LoadRows(PASam), LoadRows(PBBam) }

SearchInit ==
  /\ LoopInit
  /\ picker_open = FALSE
  /\ picker_path = CurrentDir
  /\ picker_entries \in { ScanEntries(CurrentDir, o) : o \in ReadDir(CurrentDir) }
  /\ picker_state = 0
  /\ table_rows \in LoadedTables
  /\ table_state = 0
  /\ table_scroll = << 0, 0 >>
  /\ search_open = FALSE
  /\ search_input = << >>
  /\ search_results = << >>
  /\ workers = << >>
  /\ loader_chan = << >>
  /\ quit = FALSE
  /\ panicked = FALSE

QueryBound == Len(search_input') <= MaxQuery

SearchNext ==
  \/ KeySlash /\ QueryBound /\ UNCHANGED loopVars
  \/ KeyEsc /\ UNCHANGED loopVars
  \/ KeyUp /\ UNCHANGED loopVars
  \/ KeyDown /\ UNCHANGED loopVars
  \/ KeyEnter /\ UNCHANGED loopVars
  \/ KeyBackspace /\ UNCHANGED loopVars
  \/ \E c \in QueryChars : KeyChar(c) /\ QueryBound /\ UNCHANGED loopVars

SpecSearch == SearchInit /\ [][SearchNext]_vars

(***************************************************************************)
(* The main loop step by step (main.rs:217-315), for the properties that   *)
(* depend on its scheduling.  Input events arrive from the terminal at any *)
(* time; the loop reads the event that waits at its poll, handles a key    *)
(* press, and goes on to the test of the tick timer, except after a key    *)
(* event that is not a press, where `continue` takes it back to the poll.  *)
(* The keys are those of the picker that dispatch and move the selection.  *)
(***************************************************************************)
\* most results outstanding at once in the specification of the loop
MaxLive == 1

\* crossterm events: key presses, a key event of another kind
\* (KeyEventKind::Release or Repeat), an event that is no key event
\* (mouse capture is enabled, main.rs:206)
PressEvents == { "Tab", "Enter", "Down" }
Events == PressEvents \cup { "KeyRelease", "Mouse" }

\* the terminal delivers an input event
Arrive(e) ==
  /\ Running
  /\ event = "none"
  /\ e \in PressEvents => Pending < MaxLive
  /\ event' = e
  /\ UNCHANGED << progVars, pc, tick_due >>

\* the tick interval runs out: last_tick.elapsed() >= tick_rate from now on
TimePasses ==
  /\ Running
  /\ ~tick_due
  /\ tick_due' = TRUE
  /\ UNCHANGED << progVars, event, pc >>

\* main.rs:227-308  the match on the code of a key press
HandleKey(e) ==
  CASE e = "Tab"   -> KeyTab
    [] e = "Enter" -> KeyEnter
    [] e = "Down"  -> KeyDown

\* main.rs:221-308  poll finds a key press: it is read and handled, and the
\* loop goes on to the tick test
ReadPress ==
  /\ pc = "poll"
  /\ event \in PressEvents
  /\ HandleKey(event)
  /\ event' = "none"
  /\ pc' = IF panicked' THEN pc ELSE "ticktest"
  /\ UNCHANGED tick_due

\* main.rs:223-225  a key event that is not a press: continue, back to the
\* poll without the tick test
ReadNonPress ==
  /\ Running
  /\ pc = "poll"
  /\ event = "KeyRelease"
  /\ event' = "none"
  /\ UNCHANGED << progVars, pc, tick_due >>

\* main.rs:222, 310  an event that is no key event falls through to the
\* tick test
ReadOther ==
  /\ Running
  /\ pc = "poll"
  /\ event = "Mouse"
  /\ event' = "none"
  /\ pc' = "ticktest"
  /\ UNCHANGED << progVars, tick_due >>

\* main.rs:220-221  no event within the timeout, which is what is left of
\* the tick interval: poll returns false when the interval has run out
PollTimeout ==
  /\ Running
  /\ pc = "poll"
  /\ event = "none"
  /\ tick_due
  /\ pc' = "ticktest"
  /\ UNCHANGED << progVars, event, tick_due >>

\* main.rs:311-314  the tick test: recv and a new interval when the interval
\* has run out, nothing otherwise; then the next iteration
TickTest ==
  /\ pc = "ticktest"
  /\ IF tick_due
     THEN Tick /\ tick_due' = FALSE
     ELSE Running /\ UNCHANGED << progVars, tick_due >>
  /\ pc' = "poll"
  /\ UNCHANGED event

\* one step of the main thread
LoopStep == ReadPress \/ ReadNonPress \/ ReadOther \/ PollTimeout \/ TickTest

LiveNext ==
  \/ \E e \in Events : Arrive(e)
  \/ TimePasses
  \/ ReadPress
  \/ ReadNonPress
  \/ ReadOther
  \/ PollTimeout
  \/ TickTest
  \/ \E i \in 1..Len(workers) : ScanDone(i) /\ UNCHANGED loopVars
  \/ \E i \in 1..Len(workers) : LoadDone(i) /\ UNCHANGED loopVars
  \/ \E i \in 1..Len(workers) : LoadFail(i) /\ UNCHANGED loopVars

\* The main thread is scheduled and time passes; nothing is assumed of the
\* input events, nor of the speed of the workers.
SpecLive ==
  /\ Init
  /\ [][LiveNext]_vars
  /\ WF_vars(LoopStep)
  /\ WF_vars(TimePasses)

(***************************************************************************)
(* Properties.                                                             *)
(***************************************************************************)
\* a step that takes messages off the loader channel (only recv does)
Drains == Len(loader_chan') < Len(loader_chan)

HasKind(queue, kind) == \E k \in 1..Len(queue) : queue[k].kind = kind

\* the payload of the message of this kind that arrived last
LastPayload(queue, kind) ==
  LET k == CHOOSE i \in 1..Len(queue) :
             /\ queue[i].kind = kind
             /\ \A j \in (i + 1)..Len(queue) : queue[j].kind # kind
  IN  queue[k].payload

\* C1: a drain that applies a SamRows (TableReady) message leaves the table
\* equal to the payload applied last, the table selection at 0, the scroll
\* offsets at (0,0) and the search results empty, whatever they were before.
C1_TableReadyResets ==
  [][ (Drains /\ HasKind(loader_chan, "SamRows")) =>
        /\ table_rows' = LastPayload(loader_chan, "SamRows")
        /\ table_state' = 0
        /\ table_scroll' = << 0, 0 >>
        /\ search_results' = << >> ]_vars

\* C1 witness: a SamRows message is about to be applied to a table of other
\* rows with a selection past row 0, a scroll offset and search results.
C1_Witness ==
  /\ Running
  /\ HasKind(loader_chan, "SamRows")
  /\ table_rows # << >>
  /\ table_rows # LastPayload(loader_chan, "SamRows")
  /\ table_state > 0
  /\ table_scroll[1] > 0
  /\ search_results # << >>

\* C2: one drain takes every queued message: the channel is empty after it,
\* the entry list and the table are the payloads that arrived last of their
\* kind (the messages were applied oldest first), the selections they reset
\* are at 0, the drain does not wait for the workers still running, and a
\* drain with no message of a kind leaves that kind's state as it was.  With
\* an empty channel the tick can still be taken: recv does not block.
C2_DrainTakesAll ==
  /\ []((Running /\ loader_chan = << >>) => ENABLED Tick)
  /\ [][ Drains =>
           /\ loader_chan' = << >>
           /\ workers' = workers
           /\ IF HasKind(loader_chan, "Files")
              THEN /\ picker_entries' = LastPayload(loader_chan, "Files")
                   /\ picker_state' = 0
              ELSE UNCHANGED << picker_entries, picker_state >>
           /\ IF HasKind(loader_chan, "SamRows")
              THEN /\ table_rows' = LastPayload(loader_chan, "SamRows")
                   /\ table_state' = 0
              ELSE UNCHANGED << table_rows, table_state >> ]_vars

\* C2 witness: two messages of one kind with different payloads are queued
\* when the loop is about to tick.
C2_Witness ==
  /\ Running
  /\ Len(loader_chan) >= 2
  /\ loader_chan[1].kind = loader_chan[2].kind
  /\ loader_chan[1].payload # loader_chan[2].payload

\* seq without its element i
Without(seq, i) ==
  [j \in 1..(Len(seq) - 1) |-> IF j < i THEN seq[j] ELSE seq[j + 1]]

\* C3: no worker is cancelled and no result is dropped.  In every step the
\* workers are the same, or one more (the others untouched), or one worker
\* has ended, having posted its own message at the end of the channel or,
\* for a load, nothing; and the channel only loses messages in a drain,
\* after which the entry list (the table) is the payload of the Files
\* (SamRows) message that arrived last, whichever request it answers.
C3_NoCancellation ==
  [][ /\ \/ workers' = workers
         \/ /\ Len(workers') = Len(workers) + 1
            /\ SubSeq(workers', 1, Len(workers)) = workers
            /\ loader_chan' = loader_chan
         \/ \E i \in 1..Len(workers) :
              /\ workers' = Without(workers, i)
              /\ \/ /\ Len(loader_chan') = Len(loader_chan) + 1
                    /\ SubSeq(loader_chan', 1, Len(loader_chan)) = loader_chan
                    /\ loader_chan'[Len(loader_chan')].path = workers[i].path
                    /\ loader_chan'[Len(loader_chan')].kind =
                         (IF workers[i].kind = "scan" THEN "Files" ELSE "SamRows")
                 \/ /\ workers[i].kind = "load"
                    /\ loader_chan' = loader_chan
      /\ loader_chan' # loader_chan =>
           \/ /\ Len(loader_chan') = Len(loader_chan) + 1
              /\ SubSeq(loader_chan', 1, Len(loader_chan)) = loader_chan
           \/ /\ loader_chan' = << >>
              /\ HasKind(loader_chan, "Files") =>
                   picker_entries' = LastPayload(loader_chan, "Files")
              /\ HasKind(loader_chan, "SamRows") =>
                   table_rows' = LastPayload(loader_chan, "SamRows") ]_vars

\* C3 witness: nothing is outstanding, the directory asked for last is
\* /w/sub, and the entry list is the result of the earlier scan of /, which
\* arrived after the result of the scan of /w/sub.
C3_Witness ==
  /\ workers = << >>
  /\ loader_chan = << >>
  /\ picker_path = PSub
  /\ picker_entries \in { ScanEntries(PRoot, o) : o \in ReadDir(PRoot) }

\* C4: the picker modal and the search modal are never both open.
C4_ModalsExclusive == ~(picker_open /\ search_open)

\* a step in which Enter is handled by the search modal
SearchConfirmed == search_open /\ ~picker_open /\ KeyEnter

\* q occurs in field as a contiguous run of characters
Occurs(q, field) ==
  \E k \in 1..(Len(field) - Len(q) + 1) : SubSeq(field, k, k + Len(q) - 1) = q

\* the indices of the rows whose field 0 contains q
MatchSet(rows, q) == { i \in 0..(Len(rows) - 1) : Occurs(q, rows[i + 1][1]) }

\* q is empty or white space only
Blank(q) == \A i \in 1..Len(q) : q[i] \in { " ", TAB }

\* q from its first to its last character that is not white space
Core(q) ==
  LET solid == { i \in 1..Len(q) : q[i] \notin { " ", TAB } } IN
  IF solid = { } THEN << >>
  ELSE SubSeq(q, CHOOSE i \in solid : \A j \in solid : i <= j,
                 CHOOSE i \in solid : \A j \in solid : i >= j)

\* seq lists exactly the members of S, smallest first
ListsAscending(seq, S) ==
  /\ \A i, j \in 1..Len(seq) : i < j => seq[i] < seq[j]
  /\ { seq[i] : i \in 1..Len(seq) } = S

\* C5 as stated: confirming a search with query q sets the search results to
\* the empty sequence when q is empty or white space only, and otherwise to
\* the ascending indices of the rows whose field 0 contains q itself.
C5_SearchMatchesQuery ==
  [][ SearchConfirmed =>
        ListsAscending(search_results',
                       IF Blank(search_input) THEN { }
                       ELSE MatchSet(table_rows, search_input)) ]_vars

\* C5 amended: confirming a search with query q sets the search results to
\* the empty sequence when q is empty or white space only, and otherwise to
\* the ascending indices of the rows whose field 0 contains, as a literal
\* case-sensitive substring, q without its leading and trailing white space.
C5_SearchMatchesTrimmedQuery ==
  [][ SearchConfirmed =>
        ListsAscending(search_results',
                       IF Blank(search_input) THEN { }
                       ELSE MatchSet(table_rows, Core(search_input))) ]_vars

\* C5 witness: the query r1 was confirmed on the table with field-0 values
\* r1, r2, r1x, r3 and the results are rows 0 and 2.
C5_Witness ==
  /\ ~search_open
  /\ search_input = << "r", "1" >>
  /\ Len(table_rows) = 4
  /\ search_results = << 0, 2 >>

\* C6: after a search is confirmed the table selection is the smallest
\* matching row index when some row matches, and is what it was before the
\* search when the result set is empty (no row matches, or the query is
\* empty or white space only).
C6_SearchSelectsFirstMatch ==
  [][ SearchConfirmed =>
        LET M == IF Blank(search_input) THEN { }
                 ELSE MatchSet(table_rows, Core(search_input))
        IN  /\ (search_results' = << >>) <=> (M = { })
            /\ IF M = { } THEN table_state' = table_state
               ELSE table_state' \in M /\ \A i \in M : table_state' <= i ]_vars

\* C6 witness: a confirmed search has moved the selection to its first
\* match, which is not row 0.
C6_Witness ==
  /\ ~search_open
  /\ search_results # << >>
  /\ search_results[1] > 0
  /\ table_state = search_results[1]

\* the number of tabs of a line
TabCount(text) == Cardinality({ i \in 1..Len(text) : text[i] = TAB })

\* the fields written one after the other with a tab between them
RECURSIVE JoinTabs(_)
JoinTabs(fields) ==
  IF Len(fields) = 0 THEN << >>
  ELSE IF Len(fields) = 1 THEN fields[1]
  ELSE fields[1] \o << TAB >> \o JoinTabs(Tail(fields))

\* the lines of file p that were read, do not start with '@' and have 11 or
\* more tab-separated fields
KeptLines(p) ==
  { i \in 1..Len(FileLines(p)) :
      LET l == FileLines(p)[i] IN
        /\ l.ok
        /\ ~(Len(l.text) > 0 /\ l.text[1] = "@")
        /\ TabCount(l.text) + 1 >= 11 }

\* rows are the kept lines of file p, in file order, split at the tabs
RowsOfFile(rows, p) ==
  /\ Len(rows) = Cardinality(KeptLines(p))
  /\ \A i \in KeptLines(p) :
       LET k == Cardinality({ j \in KeptLines(p) : j <= i }) IN
         /\ JoinTabs(rows[k]) = FileLines(p)[i].text
         /\ Len(rows[k]) = TabCount(FileLines(p)[i].text) + 1

\* C7: every row of the table has at least 11 fields and a field 0 that does
\* not start with '@', and the rows a load posts are exactly the lines of
\* its file that do not start with '@' and have 11 or more tab-separated
\* fields, in file order.
C7_RowsWellFormed ==
  /\ \A r \in 1..Len(table_rows) :
       /\ Len(table_rows[r]) >= 11
       /\ ~(Len(table_rows[r][1]) > 0 /\ table_rows[r][1][1] = "@")
  /\ \A k \in 1..Len(loader_chan) :
       loader_chan[k].kind = "SamRows" =>
         RowsOfFile(loader_chan[k].payload, loader_chan[k].path)

\* C7 witness: a table is loaded and the load of a.sam, which has '@' lines
\* and a short line, has posted its rows.
C7_Witness ==
  /\ table_rows # << >>
  /\ \E k \in 1..Len(loader_chan) :
       /\ loader_chan[k].kind = "SamRows"
       /\ loader_chan[k].path = PASam
       /\ Len(loader_chan[k].payload) < Len(FileLines(PASam))

\* C8: a load whose file cannot be opened or whose read fails part-way
\* delivers no TableReady message: every SamRows message on the channel
\* comes from a file that was opened and read without a failure.
C8_FailedLoadPostsNothing ==
  \A k \in 1..Len(loader_chan) :
    loader_chan[k].kind = "SamRows" =>
      /\ loader_chan[k].path \notin Unopenable
      /\ \A i \in 1..Len(FileLines(loader_chan[k].path)) :
           FileLines(loader_chan[k].path)[i].ok

\* the immediate children of directory d
Children(d) == UNION { { o[i] : i \in 1..Len(o) } : o \in ReadDir(d) }

\* C9: the entry list a scan of D publishes is the parent of D, when D has
\* one, followed by exactly the immediate children of D that are
\* directories or have extension sam or bam.
C9_ScanListsParentAndChildren ==
  \A k \in 1..Len(loader_chan) :
    loader_chan[k].kind = "Files" =>
      LET d    == loader_chan[k].path
          l    == loader_chan[k].payload
          n    == IF d # PRoot THEN 1 ELSE 0
          kids == { c \in Children(d) :
                      \/ c \in Dirs
                      \/ HasExtension(c) /\
                         Extension(c) \in { << "s", "a", "m" >>, << "b", "a", "m" >> } }
      IN  /\ Len(l) = n + Cardinality(kids)
          /\ n = 1 => l[1] = Parent(d)
          /\ { l[i] : i \in (n + 1)..Len(l) } = kids

\* a <= b in lexicographic order of the lower-cased characters
LowerLexLeq(a, b) ==
  \E k \in 0..Len(a) :
    /\ k <= Len(b)
    /\ \A i \in 1..k : Lower(a[i]) = Lower(b[i])
    /\ \/ k = Len(a)
       \/ k < Len(b) /\ Ord(Lower(a[k + 1])) < Ord(Lower(b[k + 1]))

\* l has every directory before every file and entries of one kind in
\* case-insensitive lexicographic order
Ordered(l) ==
  \A i, j \in 1..Len(l) :
    /\ (l[i] \in Dirs /\ l[j] \in RegularFiles) => i < j
    /\ (i < j /\ ((l[i] \in Dirs) <=> (l[j] \in Dirs))) => LowerLexLeq(l[i], l[j])

\* C10: in every entry list a scan publishes, every directory entry comes
\* before every file entry, and two entries of the same kind are in
\* case-insensitive lexicographic order of their paths.
C10_ScanOrdered ==
  /\ \A k \in 1..Len(loader_chan) :
       loader_chan[k].kind = "Files" => Ordered(loader_chan[k].payload)
  /\ Ordered(picker_entries)

\* C10 witness: the scan of /w/sub, which holds c.sam and Z.sam, has been
\* published and applied.
C10_Witness ==
  /\ Len(picker_entries) = 4
  /\ picker_entries[3] = PCSam
  /\ picker_entries[4] = PZSam

(***************************************************************************)
(* The modal modes: the picker and the search modal are the two flags of   *)
(* App; a mode is the state with at most one of them set.                  *)
(***************************************************************************)
Browsing == ~picker_open /\ ~search_open
PickerOpen == picker_open /\ ~search_open
SearchOpen == search_open /\ ~picker_open

\* the entry under the picker's selection
Selected == picker_entries[picker_state + 1]
SelectionValid == picker_state < Len(picker_entries)

TabOpens == ~picker_open /\ KeyTab
TabCloses == picker_open /\ KeyTab
EnterDispatches == picker_open /\ SelectionValid /\ KeyEnter

\* seq' is seq with the one element x added at its end
Appended(seq, x, next) == next = Append(seq, x)

\* C12: the program starts with exactly one worker, the startup scan, and
\* an empty channel.  A Tab that opens the picker, Enter on a directory and
\* Enter on a file each add exactly one worker (the scan of the current
\* path, the scan of the directory, the load of the file) and no other step
\* adds a worker; a Tab that closes the picker adds none.  A worker posts
\* only as it ends: a step that adds a message adds exactly one and ends
\* exactly one worker, a scan worker that ends has posted exactly one Files
\* message, a load worker that ends has posted one SamRows message or
\* nothing.  So the messages ever posted are never more than the workers
\* ever spawned.
C12_OneWorkerOneMessage ==
  /\ Len(workers) = 1 /\ loader_chan = << >>
  /\ [][ /\ TabOpens => Appended(workers, Worker("scan", picker_path), workers')
         /\ TabCloses => workers' = workers /\ loader_chan' = loader_chan
         /\ EnterDispatches =>
              Appended(workers,
                       Worker(IF IsDir(Selected) THEN "scan" ELSE "load", Selected),
                       workers')
         /\ Len(workers') > Len(workers) =>
              /\ TabOpens \/ EnterDispatches
              /\ Len(workers') = Len(workers) + 1
              /\ loader_chan' = loader_chan
         /\ Len(loader_chan') > Len(loader_chan) =>
              /\ Len(loader_chan') = Len(loader_chan) + 1
              /\ Len(workers') = Len(workers) - 1
         /\ Len(workers') < Len(workers) =>
              \E i \in 1..Len(workers) :
                 /\ workers' = Without(workers, i)
                 /\ IF workers[i].kind = "scan"
                    THEN /\ Len(loader_chan') = Len(loader_chan) + 1
                         /\ loader_chan'[Len(loader_chan')].kind = "Files"
                    ELSE \/ loader_chan' = loader_chan
                         \/ /\ Len(loader_chan') = Len(loader_chan) + 1
                            /\ loader_chan'[Len(loader_chan')].kind = "SamRows" ]_vars

\* C12 witness: two dispatches are outstanding with the picker closed: a
\* scan and the load of a file that cannot be opened, which will post
\* nothing.
C12_Witness ==
  /\ ~picker_open
  /\ \E i, j \in 1..Len(workers) :
        /\ workers[i].kind = "scan"
        /\ workers[j].kind = "load" /\ ~CanOpen(workers[j].path)

\* C13: every message a worker posts is eventually applied: whenever the
\* channel holds a message, a later drain empties it (or the program has
\* ended by then), whatever input events arrive.
C13_PostedEventuallyApplied ==
  (loader_chan # << >>) ~> (loader_chan = << >> \/ ~Running)

\* C14: applying a Files message replaces the entry list by the payload and
\* selects entry 0, and changes nothing else that recv assigns: this is so
\* for every queued Files message in every reachable state, whatever the
\* selection and whether or not the picker is open.  A drain of Files
\* messages only leaves the entry list of the last one with entry 0
\* selected and changes neither the modal flags, the current path, the
\* table, its selection and scroll offsets, the search input nor the search
\* results.
C14_FilesResetsPickerOnly ==
  /\ [](\A k \in 1..Len(loader_chan) :
          loader_chan[k].kind = "Files" =>
            ApplyMsg(RecvView, loader_chan[k]) =
              [RecvView EXCEPT !.picker_entries = loader_chan[k].payload,
                               !.picker_state = 0])
  /\ [][ (Drains /\ ~HasKind(loader_chan, "SamRows")) =>
           /\ picker_entries' = LastPayload(loader_chan, "Files")
           /\ picker_state' = 0
           /\ UNCHANGED << picker_open, search_open, picker_path,
                           table_rows, table_state, table_scroll,
                           search_input, search_results >> ]_vars

\* C14 witness: a Files message is about to be applied while the picker is
\* closed, its selection is not the first entry, and the table has a
\* selection and search results of its own.
C14_Witness ==
  /\ Running
  /\ HasKind(loader_chan, "Files")
  /\ ~HasKind(loader_chan, "SamRows")
  /\ ~picker_open
  /\ picker_state > 0
  /\ picker_state < Len(LastPayload(loader_chan, "Files"))
  /\ table_state > 0
  /\ search_results # << >>

\* a key step of table navigation: the key is handled in Browsing
BrowsingUp == Browsing /\ KeyUp
BrowsingDown == Browsing /\ KeyDown

\* C15: table navigation in Browsing saturates: Up on row 0 stays on row 0,
\* Down on the last row stays on the last row, and otherwise Up selects the
\* row before and Down the row after; the table, the scroll offsets and the
\* search results are as they were.
C15_TableNavigationSaturates ==
  [][ /\ BrowsingUp =>
           /\ table_state' = (IF table_state = 0 THEN 0 ELSE table_state - 1)
           /\ UNCHANGED << table_rows, table_scroll, search_results, picker_state >>
      /\ BrowsingDown =>
           /\ table_state' = (IF table_state + 1 >= Len(table_rows)
                              THEN table_state ELSE table_state + 1)
           /\ UNCHANGED << table_rows, table_scroll, search_results, picker_state >> ]_vars

\* C15 witness: the last of the four rows of a.sam is selected in Browsing,
\* where Down has nowhere to go, and it was reached by Down from row 0.
C15_Witness ==
  /\ Browsing
  /\ Running
  /\ Len(table_rows) = 4
  /\ table_state = 3
  /\ search_results = << >>

\* the selection the claim gives after Up and after Down in a list of len
\* entries: round the ends
WrapUp(i, len) == IF i = 0 THEN len - 1 ELSE i - 1
WrapDown(i, len) == IF i = len - 1 THEN 0 ELSE i + 1

\* C16: entry-list navigation in PickerOpen wraps at both ends: whenever the
\* picker is open on a list that has entries, the Down key selects the
\* first entry from the last one and the entry after elsewhere, and the Up
\* key selects the last entry from the first one and the entry before
\* elsewhere.
C16_PickerNavigationWraps ==
  (Running /\ PickerOpen /\ picker_entries # << >>) =>
    /\ ENABLED (/\ KeyDown
                /\ UNCHANGED loopVars
                /\ picker_state' = WrapDown(picker_state, Len(picker_entries)))
    /\ ENABLED (/\ KeyUp
                /\ UNCHANGED loopVars
                /\ picker_state' = WrapUp(picker_state, Len(picker_entries)))

\* seq is strictly ascending
StrictlyAscending(seq) ==
  \A k \in 1..(Len(seq) - 1) : seq[k] < seq[k + 1]

\* C17: in every reachable state the search results are a strictly
\* ascending sequence of indices, each of them smaller than the number of
\* rows of the current table: no index of an earlier table outlives it.
C17_ResultsIndexCurrentTable ==
  /\ StrictlyAscending(search_results)
  /\ \A k \in 1..Len(search_results) :
       search_results[k] \in 0..(Len(table_rows) - 1)

\* C17 witness: a search has found rows of the current table, and a table
\* with fewer rows than the largest index found is queued to replace it.
C17_Witness ==
  /\ Running
  /\ Len(search_results) >= 2
  /\ HasKind(loader_chan, "SamRows")
  /\ Len(LastPayload(loader_chan, "SamRows")) <= search_results[Len(search_results)]

\* C18: the entry lookup of Enter in the picker never reads out of range:
\* the main thread never panics on picker_entries[idx].
C18_EnterLookupInRange == ~panicked

\* C19: in every reachable state the table selection is the index of a row
\* of the current table when the table has rows, and 0 when it has none.
C19_TableSelectionValid ==
  IF table_rows = << >> THEN table_state = 0
  ELSE table_state \in 0..(Len(table_rows) - 1)

\* C19 witness: a row is selected whose index is past the end of the
\* shorter table that is queued to replace the current one.
C19_Witness ==
  /\ Running
  /\ table_state > 0
  /\ HasKind(loader_chan, "SamRows")
  /\ LastPayload(loader_chan, "SamRows") # << >>
  /\ table_state >= Len(LastPayload(loader_chan, "SamRows"))

\* main.rs:228, 231, 282  a press of the key of character c, handled by the
\* first arm that accepts it: 'q', '/', or the Char(c) arm of the search
\* modal
PressChar(c) ==
  CASE c = "q" -> KeyQ
    [] c = "/" -> KeySlash
    [] OTHER   -> KeyChar(c)

\* the characters pressed in C20
PressedChars == TypeChars \cup { "q", "/" }

\* C20: in SearchOpen a press of any character appends that character to
\* the search input and Backspace removes the last character of it; both
\* leave the mode SearchOpen and the program running, and the table, its
\* selection and scroll offsets and the search results unchanged.
C20_SearchModalCapturesChars ==
  [][ /\ \A c \in PressedChars :
           (SearchOpen /\ PressChar(c)) =>
              /\ search_input' = Append(search_input, c)
              /\ SearchOpen' /\ Running'
              /\ UNCHANGED << table_rows, table_state, table_scroll, search_results >>
      /\ (SearchOpen /\ KeyBackspace) =>
              /\ search_input' = SubSeq(search_input, 1, Len(search_input) - 1)
              /\ SearchOpen' /\ Running'
              /\ UNCHANGED << table_rows, table_state, table_scroll, search_results >> ]_vars

====
